---- MODULE Spec2Model ----
(***************************************************************************)
(* A model of the freelist (src/src/freelist.rs), of merge_pgids           *)
(* (src/src/page.rs) and of the node (src/src/node.rs) of bolt-rust.        *)
(*                                                                         *)
(* A panic unwinds out of the call that raised it and leaves the fields as *)
(* they were at the panicking statement; the run ends there (status =      *)
(* "panic").  A loop that never exits ends the run with status = "hang".   *)
(***************************************************************************)
EXTENDS Integers, Sequences, FiniteSets

\* ------------------------------------------------------------------ bounds
MaxPgid == 5
MaxTxid == 2
MaxOverflow == 1
MaxAlloc == 3
MaxPending == 2
MaxMergeId == 4
\* The largest value of the page header's count field, which marks the page
\* whose true count is in the first slot. It is 0xFFFF in the code (count is
\* a u16); the model gives the field this narrower range.
CountMax == 3
\* The bytes of the keys put into a node are 1..MaxKeyByte.
MaxKeyByte == 2
\* The most inodes of a node that is split.
MaxSplitLen == 7

\* The greatest pgid Bucket::node is called with.
MaxNodePgid == 2

\* The most children a node has when spill is called on it.
MaxKids == 2

\* tx.meta.pgid as the tests of the node set it (Meta::new leaves it 0).
TestMetaPgid == 1

\* ------------------------------------------------------------------ constants of the program
\* page.rs: the size of the page header (offset_of!(Page, ptr)) and of the two
\* page elements (mem::size_of), and the page flags.
PAGE_HEADER_SIZE == 16
BRANCH_PAGE_ELEMENT_SIZE == 16
LEAF_PAGE_ELEMENT_SIZE == 16
BRANCH_PAGE_FLAG == 1
LEAF_PAGE_FLAG == 2
MIN_KEYS_PER_PAGE == 2
\* node.rs line 312: write refuses a node of this many inodes.
INODE_OVERFLOW == 65535
\* bucket.rs: the fill percents, in tenths.
MIN_FILL_PERCENT == 1
MAX_FILL_PERCENT == 10
DEFAULT_FILL_PERCENT == 5
\* bucket.rs line 51: the fill_percent Bucket::new sets, in tenths.
NEW_FILL_PERCENT == 0

PgIds == 0..MaxPgid
\* One pgid more: the least range with a run of three pages above pgid 2.
WidePgIds == 0..(MaxPgid + 1)
TxIds == 1..MaxTxid

VARIABLES
    ids,        \* FreeList.ids: Vec<pgid_t>
    pending,    \* FreeList.pending: HashMap<txid_t, Vec<pgid_t>>
    cache,      \* FreeList.cache: HashSet<pgid_t>
    status,     \* "ok" | "panic" | "hang": how the last call ended
    call,       \* the last call: its name, arguments and return value
    unreleased, \* history: <<pgid, txid>> freed and not yet released or rolled back
    loaded,     \* history: read or reload has been called
    m_a, m_b,   \* merge_pgids: the arguments a and b
    m_cap,      \* merge_pgids: dst.capacity()
    m_dst,      \* merge_pgids: dst
    m_lead, m_follow, \* merge_pgids: the two slices of the loop
    m_pc,       \* merge_pgids: "idle" | "start" | "loop" | "done" | "panic"
    flpage,     \* the freelist page: its header count and its pgid slots
    wrote,      \* history: the ids and pending lists at the last write
    f2,         \* a second freelist, which reads the page
    node,       \* the node: is_leaf, unbalanced, spilled, key, pgid, inodes, parent
    pnode,      \* the parent the node had before any split: its pgid, its spilled
    hwm,        \* tx.meta.pgid, the high water mark
    meta_txid,  \* tx.meta.txid
    nstatus,    \* "ok" | "panic": how the last call on the node ended
    ncall,      \* the last call on the node
    nhist,      \* history: the last put of each key that was not deleted since
    siblings,   \* the nodes the last split has produced, left to right
    children,   \* the child list of the parent the node had before any split
    kids,       \* the child nodes of the node, and the rank of the spill called on each
    kid_list,   \* node.children: the child list of the node, by index in kids
    new_parents, \* split's new_parents: the child list of each new parent
    stats_split, \* tx.stats.split
    fill_percent, \* bucket.fill_percent, in tenths
    npage,      \* the page the node is written to
    node2,      \* a second node, which reads the page
    bucket,     \* the bucket: nodes (the node cache), root_node, page
    bnodes,     \* the nodes the bucket has made: each node, its parent, its children
    node_count, \* tx.stats.node_count
    bcall       \* the last call of Bucket::node: its arguments and the node it returned

flVars == <<ids, pending, cache, status, call, unreleased, loaded>>
mergeVars == <<m_a, m_b, m_cap, m_dst, m_lead, m_follow, m_pc>>
loadVars == <<flpage, wrote, f2>>
nodeVars == <<node, pnode, kids, kid_list, hwm, meta_txid, nstatus, ncall, nhist, siblings, children, new_parents, stats_split,
              fill_percent, npage, node2>>
bucketVars == <<bucket, bnodes, node_count, bcall>>
nonFlVars == <<mergeVars, loadVars, nodeVars, bucketVars>>
nonMergeVars == <<flVars, loadVars, nodeVars, bucketVars>>
vars == <<flVars, mergeVars, loadVars, nodeVars, bucketVars>>

\* ------------------------------------------------------------------ helpers
SeqSet(s) == {s[i] : i \in DOMAIN s}

RemoveAt(s, i) == SubSeq(s, 1, i - 1) \o SubSeq(s, i + 1, Len(s))

Min(S) == CHOOSE x \in S : \A y \in S : x <= y

\* Vec::sort: the same elements (with their multiplicity) in ascending order.
RECURSIVE SortPgids(_)
SortPgids(s) ==
    IF s = <<>> THEN <<>>
    ELSE LET i == CHOOSE i \in DOMAIN s : \A j \in DOMAIN s : s[i] <= s[j]
         IN  <<s[i]>> \o SortPgids(RemoveAt(s, i))

\* The ascending list of the elements of a set.
RECURSIVE SetToSeq(_)
SetToSeq(S) == IF S = {} THEN <<>> ELSE <<Min(S)>> \o SetToSeq(S \ {Min(S)})

IsAscending(s) == \A i \in 1..(Len(s) - 1) : s[i] < s[i + 1]

\* ------------------------------------------------------------------ merge_pgids
\* slice::binary_search (std): Ok(i) with lead[i] = x when x occurs (which of
\* several matches is unspecified: the lowest is taken), otherwise Err(i), the
\* place where x would be inserted.  merge_pgids uses the index either way.
BinarySearch(lead, x) ==
    IF \E i \in DOMAIN lead : lead[i] = x
    THEN Min({i \in DOMAIN lead : lead[i] = x}) - 1
    ELSE Cardinality({i \in DOMAIN lead : lead[i] < x})

\* Lines 169-171: the capacity check.
MergeBadLen(cap, a, b) == cap < Len(a) + Len(b)

\* Lines 174-190: neither "copy in the opposite slice" branch returns, so b[0] and
\* a[0] are read whatever the lengths: an empty a or b is an index out of bounds.
MergeIndexPanics(a, b) == Len(a) = 0 \/ Len(b) = 0

\* Lines 185-190: the slice that starts lower leads.
MergeLead(a, b) == IF b[1] < a[1] THEN b ELSE a
MergeFollow(a, b) == IF b[1] < a[1] THEN a ELSE b

\* Lines 193-214 as a function: one iteration per unfolding.  The loop state
\* (lead, follow, dst) repeats after two iterations when both searches return 0,
\* and then the loop never exits.
RECURSIVE MergeLoopResult(_, _, _)
MergeLoopResult(lead, follow, dst) ==
    LET n == BinarySearch(lead, follow[1])
        out == dst \o SubSeq(lead, 1, n)
    IN  IF n >= Len(lead) THEN [res |-> "ok", dst |-> out \o follow]
        ELSE IF n = 0 /\ BinarySearch(follow, lead[1]) = 0
        THEN [res |-> "hang", dst |-> dst]
        ELSE MergeLoopResult(follow, SubSeq(lead, n + 1, Len(lead)), out)

\* merge_pgids(dst, a, b) for an empty dst of capacity cap.
merge_pgids(cap, a, b) ==
    IF MergeBadLen(cap, a, b) THEN [res |-> "panic", dst |-> <<>>]
    ELSE IF MergeIndexPanics(a, b) THEN [res |-> "panic", dst |-> <<>>]
    ELSE MergeLoopResult(MergeLead(a, b), MergeFollow(a, b), <<>>)

\* ------------------------------------------------------------------ freelist
PendingSet(pend) == UNION {SeqSet(pend[t]) : t \in DOMAIN pend}

RECURSIVE PendingConcat(_, _)
PendingConcat(pend, T) ==
    IF T = {} THEN <<>>
    ELSE pend[Min(T)] \o PendingConcat(pend, T \ {Min(T)})

pending_count(pend) == Len(PendingConcat(pend, DOMAIN pend))

NoCall == [op |-> "new", txid |-> 0, pgid |-> 0, overflow |-> 0, n |-> 0, ret |-> 0]

\* The scan of allocate (lines 72-93), from index i (1-based) on.
RECURSIVE AllocScan(_, _, _, _, _)
AllocScan(s, n, i, initial, previd) ==
    IF i > Len(s) THEN [kind |-> "none", idx |-> 0, initial |-> initial]
    ELSE LET id == s[i]
             init2 == IF previd = 0 \/ id - previd # 1 THEN id ELSE initial
         IN  IF id <= 1 THEN [kind |-> "panic", idx |-> i, initial |-> initial]
             ELSE IF (id - init2) + 1 = n
             THEN [kind |-> "found", idx |-> i, initial |-> init2]
             ELSE AllocScan(s, n, i + 1, init2, id)

\* AllocDrain with the fast path taken whatever idx is: the first n ids go.
AllocDrainFront(s, n, idx) == SubSeq(s, n + 1, Len(s))

\* Lines 102-106: the drain of the run that ends at idx (1-based here).
AllocDrain(s, n, idx) ==
    IF idx = n THEN SubSeq(s, idx + 1, Len(s))
    ELSE SubSeq(s, 1, idx - n) \o SubSeq(s, idx + 1, Len(s))

\* Lines 109-111: "for i in 0..n { self.cache.remove(&i) }" removes the pgids
\* 0 .. n-1, not initial .. initial+n-1.
AllocCache(c, n, initial) == c \ (0..(n - 1))

\* Line 122: the reserved meta pages.
FreeReservedZeroOnly(pgid) == pgid < 1

FreeReserved(pgid) == pgid <= 1

\* FreePushed without the overflow pages.
FreePushedNoOverflow(c, pgid, overflow) == IF pgid \in c THEN <<>> ELSE <<pgid>>

\* Lines 134-143: the ids free pushes before it returns or panics: the longest
\* prefix of pgid ..= pgid+overflow with no id in the cache.
FreePushed(c, pgid, overflow) ==
    LET hit == {id \in pgid..(pgid + overflow) : id \in c}
        stop == IF hit = {} THEN pgid + overflow + 1 ELSE Min(hit)
    IN  [id \in 1..(stop - pgid) |-> pgid + id - 1]

\* Line 136: some id of the page is in the cache.
FreePanics(c, pgid, overflow) == \E id \in pgid..(pgid + overflow) : id \in c

\* Lines 150-157: the tids release drains.
ReleaseTids(pend, txid) == {tid \in DOMAIN pend : tid <= txid}

\* Lines 151-157: what retain keeps.
ReleaseRetain(pend, txid) == [tid \in DOMAIN pend \ ReleaseTids(pend, txid) |-> pend[tid]]

\* RollbackCache with the cache left as it is.
RollbackCacheKept(c, list) == c

\* Lines 167-170: the cache without the rolled-back ids.
RollbackCache(c, list) == c \ SeqSet(list)

\* Lines 194-206 (count < 0xFFFF): ids after read of a page holding the list page.
ReadIds(s, page) == IF Len(page) = 0 THEN <<>> ELSE SortPgids(s \o page)

\* ReindexCache that leaves the pending pgids out.
ReindexCacheIdsOnly(s, pend) == SeqSet(s)

\* Lines 277-289.
ReindexCache(s, pend) == SeqSet(s) \cup PendingSet(pend)

\* Lines 252-269: the ids not in a pending list, in order.
ReloadFilter(s, pend) == SelectSeq(s, LAMBDA id : id \notin PendingSet(pend))

\* The pages read and reload are given: count (< 0xFFFF) pgids of P in ascending
\* order.
Pages(P) == {SetToSeq(S) : S \in SUBSET P}

\* A zeroed page buffer: count 0, no slot written.
ZeroPage == [count |-> 0, slots |-> <<>>]

\* FreeList::new, lines 18-24.
NewFreeList == [ids |-> <<>>, pending |-> <<>>, cache |-> {}]

\* merge_pgids_raw(dst, a, b), which copyall calls (line 62): the two sorted
\* lists merged into one sorted list at dst, every element copied.
merge_pgids_raw(a, b) == SortPgids(a \o b)

\* copyall, lines 54-63: the pending lists gathered and sorted, then merged with
\* ids.
copyall(s, pend) == merge_pgids_raw(s, SortPgids(PendingConcat(pend, DOMAIN pend)))

\* WritePage with the list of a long freelist written from the first slot on,
\* over the count.
WritePageNoCountSlot(s, pend) ==
    LET lenids == Len(s) + pending_count(pend)
    IN  IF lenids = 0 THEN [count |-> 0, slots |-> <<>>]
        ELSE IF lenids < CountMax THEN [count |-> lenids, slots |-> copyall(s, pend)]
        ELSE [count |-> CountMax, slots |-> copyall(s, pend)]

\* write, lines 215-246, on a zeroed page: the header count and the slots.
WritePage(s, pend) ==
    LET lenids == Len(s) + pending_count(pend)
    IN  IF lenids = 0 THEN [count |-> 0, slots |-> <<>>]
        ELSE IF lenids < CountMax THEN [count |-> lenids, slots |-> copyall(s, pend)]
        ELSE [count |-> CountMax, slots |-> <<lenids>> \o copyall(s, pend)]

\* A slot of the page; a slot never written is zero.
Slot(pg, i) == IF i \in DOMAIN pg.slots THEN pg.slots[i] ELSE 0

\* Lines 185-201: the count and the slice of pgids read takes from the page.
PageSlice(pg) ==
    LET idx == IF pg.count = CountMax THEN 1 ELSE 0
        count == IF pg.count = CountMax THEN Slot(pg, 1) ELSE pg.count
    IN  [i \in 1..count |-> Slot(pg, idx + i)]

\* The freelist page is zeroed, nothing was written, the second freelist is new.
LoadIdle ==
    /\ flpage = ZeroPage
    /\ wrote = [done |-> FALSE, ids |-> <<>>, pending |-> <<>>]
    /\ f2 = NewFreeList

\* ------------------------------------------------------------------ node
\* Option<&str>: None, and Some of a string of bytes.
None == [some |-> FALSE, bytes |-> <<>>]
Some(b) == [some |-> TRUE, bytes |-> b]

\* str::cmp: the byte strings compared byte by byte, a proper prefix first.
RECURSIVE KeyLess(_, _)
KeyLess(a, b) ==
    IF b = <<>> THEN FALSE
    ELSE IF a = <<>> THEN TRUE
    ELSE IF a[1] # b[1] THEN a[1] < b[1]
    ELSE KeyLess(Tail(a), Tail(b))

\* The inodes are in strictly increasing key order.
KeysAscending(inodes) ==
    \A i \in 1..(Len(inodes) - 1) : KeyLess(inodes[i].key, inodes[i + 1].key)

\* slice::binary_search_by (std), as put, del and find_key_index call it: the
\* halving of the slice, which ends at the 0-based index base.
RECURSIVE Bisect(_, _, _, _)
Bisect(inodes, key, base, size) ==
    IF size <= 1 THEN base
    ELSE LET half == size \div 2
             mid == base + half
         IN  Bisect(inodes, key,
                    IF KeyLess(key, inodes[mid + 1].key) THEN base ELSE mid,
                    size - half)

\* The result of the search: Ok(idx) or Err(idx), idx 0-based.
KeySearch(inodes, key) ==
    IF Len(inodes) = 0 THEN [found |-> FALSE, idx |-> 0]
    ELSE LET base == Bisect(inodes, key, 0, Len(inodes))
             k == inodes[base + 1].key
         IN  IF k = key THEN [found |-> TRUE, idx |-> base]
             ELSE [found |-> FALSE, idx |-> base + (IF KeyLess(k, key) THEN 1 ELSE 0)]

\* INode::new, lines 717-724.
NewINode == [flags |-> 0, pgid |-> 0, key |-> <<>>, value |-> None]

\* Node::new, lines 26-39; parent is "none", "old" (the node was given one) or
\* "new" (split_two made one).
NewNode == [is_leaf |-> FALSE, unbalanced |-> FALSE, spilled |-> FALSE, key |-> <<>>,
            pgid |-> 0, inodes |-> <<>>, parent |-> "none"]

InsertAt(s, i, e) == SubSeq(s, 1, i - 1) \o <<e>> \o SubSeq(s, i, Len(s))

\* The panics of put without the one on new_key.
PutPanicsNoNewKey(meta_pgid, old_key, new_key, pgid) ==
    pgid > meta_pgid \/ Len(old_key) = 0

\* Lines 222-228: the three panics of put.
PutPanics(meta_pgid, old_key, new_key, pgid) ==
    pgid > meta_pgid \/ Len(old_key) = 0 \/ Len(new_key) = 0

\* PutInodes that leaves the fields of an inode it finds as they are.
PutInodesInsertOnly(inodes, old_key, new_key, value, pgid, flags) ==
    LET r == KeySearch(inodes, old_key)
    IN  IF r.found THEN inodes
        ELSE InsertAt(inodes, r.idx + 1,
                      [flags |-> flags, pgid |-> pgid, key |-> new_key, value |-> value])

\* PutInodes that leaves the inode under old_key.
PutInodesOldKey(inodes, old_key, new_key, value, pgid, flags) ==
    LET r == KeySearch(inodes, old_key)
        with == IF r.found THEN inodes ELSE InsertAt(inodes, r.idx + 1, NewINode)
    IN  [with EXCEPT ![r.idx + 1] =
            [flags |-> flags, pgid |-> pgid, key |-> old_key, value |-> value]]

\* Lines 230-248: the inodes after put.
PutInodes(inodes, old_key, new_key, value, pgid, flags) ==
    LET r == KeySearch(inodes, old_key)
        with == IF r.found THEN inodes ELSE InsertAt(inodes, r.idx + 1, NewINode)
    IN  [with EXCEPT ![r.idx + 1] =
            [flags |-> flags, pgid |-> pgid, key |-> new_key, value |-> value]]

\* DelInodes that removes the inode at the place of the search, found or not.
DelInodesAtIndex(inodes, key) ==
    LET r == KeySearch(inodes, key)
    IN  IF r.idx + 1 \in DOMAIN inodes THEN RemoveAt(inodes, r.idx + 1) ELSE inodes

\* Lines 252-259: the inodes after del.
DelInodes(inodes, key) ==
    LET r == KeySearch(inodes, key)
    IN  IF r.found THEN RemoveAt(inodes, r.idx + 1) ELSE inodes

\* Lines 252-262: whether del marks the node.
DelUnbalanced(n, key) == IF KeySearch(n.inodes, key).found THEN TRUE ELSE n.unbalanced

\* No call yet: its name, its page size, the page counts it passed to
\* tx.allocate.
NoNodeCall == [op |-> "new", page_size |-> 0, requested |-> <<>>]

\* No put yet: every put so far had old_key = new_key, no key is held.
NoHist == [plain |-> TRUE, latest |-> <<>>]

\* What stands for the parent of a node that has none.
NoParent == [pgid |-> 0, spilled |-> FALSE]

\* split was not called: no sibling, no new parent, bucket.fill_percent as
\* Bucket::new sets it (bucket.rs line 51).
SplitIdle ==
    /\ siblings = <<>>
    /\ children = <<>>
    /\ pnode = NoParent
    /\ new_parents = <<>>
    /\ stats_split = 0
    /\ kids = <<>>
    /\ kid_list = <<>>
    /\ fill_percent = NEW_FILL_PERCENT

\* Bucket::new, bucket.rs lines 43-54: no node in the cache, no root node, no
\* page; node 0 stands for no node. TxStats::new: node_count 0.
NewBucket == [nodes |-> <<>>, root_node |-> 0, page |-> [some |-> FALSE, id |-> 0]]
NoBucketCall == [op |-> "new", pgid |-> 0, parent |-> 0, ret |-> 0]
BucketIdle ==
    /\ bucket = NewBucket
    /\ bnodes = <<>>
    /\ node_count = 0
    /\ bcall = NoBucketCall

\* A zeroed page buffer, and the node that will read it (Node::new).
ZeroNodePage == [id |-> 0, flags |-> 0, count |-> 0, elems |-> <<>>, data |-> <<>>]
NodePageIdle ==
    /\ npage = ZeroNodePage
    /\ node2 = NewNode

\* The node is new, nothing was called on it, there is no page.
NodeIdle ==
    /\ node = NewNode
    /\ hwm = 0
    /\ meta_txid = 0
    /\ nstatus = "ok"
    /\ ncall = NoNodeCall
    /\ nhist = NoHist
    /\ SplitIdle
    /\ NodePageIdle
    /\ BucketIdle

\* FreeList::new; merge_pgids is not running; the freelist has no page.
FreeListIdle ==
    /\ ids = <<>> /\ pending = <<>> /\ cache = {} /\ status = "ok"
    /\ call = NoCall /\ unreleased = {} /\ loaded = FALSE
    /\ m_a = <<>> /\ m_b = <<>> /\ m_cap = 0 /\ m_dst = <<>>
    /\ m_lead = <<>> /\ m_follow = <<>> /\ m_pc = "idle"
    /\ LoadIdle

\* ------------------------------------------------------------------ node: the page
\* flags | bit and flags & bit != 0, for a flag of one bit.
HasFlag(flags, bit) == (flags \div bit) % 2 = 1
OrFlag(flags, bit) == IF HasFlag(flags, bit) THEN flags ELSE flags + bit

\* page_element_size, lines 96-102.
page_element_size(n) ==
    IF n.is_leaf THEN LEAF_PAGE_ELEMENT_SIZE ELSE BRANCH_PAGE_ELEMENT_SIZE

\* The bytes of a value; none when it is absent (lines 339-342, 366-375).
ValueBytes(v) == IF v.some THEN v.bytes ELSE <<>>

\* The bytes write has copied behind the elements when it has written the
\* first k inodes (lines 360-375): each key, then its value.
RECURSIVE NodeData(_, _)
NodeData(inodes, k) ==
    IF k = 0 THEN <<>>
    ELSE NodeData(inodes, k - 1) \o inodes[k].key \o ValueBytes(inodes[k].value)

\* Lines 323-326, 336, 348: pos of element i (1-based), the distance from the
\* element to b, where b is behind all the elements and the bytes written so
\* far.
WritePos(n, i) ==
    (Len(n.inodes) * page_element_size(n) + Len(NodeData(n.inodes, i - 1)))
        - (i - 1) * page_element_size(n)

\* WriteElem that stores the distance from the page's first element.
WriteElemFromStart(n, i) ==
    LET item == n.inodes[i]
        pos == Len(n.inodes) * page_element_size(n) + Len(NodeData(n.inodes, i - 1))
    IN  IF n.is_leaf
        THEN [pos |-> pos, flags |-> item.flags, ksize |-> Len(item.key),
              vsize |-> Len(ValueBytes(item.value)), pgid |-> 0]
        ELSE [pos |-> pos, flags |-> 0, ksize |-> Len(item.key), vsize |-> 0,
              pgid |-> item.pgid]

\* Lines 332-353: the page element of inode i. A leaf element has flags, pos,
\* ksize, vsize; a branch element has pos, ksize, pgid (the fields the other
\* kind lacks are 0 here and never read).
WriteElem(n, i) ==
    LET item == n.inodes[i]
    IN  IF n.is_leaf
        THEN [pos |-> WritePos(n, i), flags |-> item.flags, ksize |-> Len(item.key),
              vsize |-> Len(ValueBytes(item.value)), pgid |-> 0]
        ELSE [pos |-> WritePos(n, i), flags |-> 0, ksize |-> Len(item.key), vsize |-> 0,
              pgid |-> item.pgid]

\* Lines 329, 351: the first inode at which write panics (an empty key, or a
\* branch inode whose pgid is the page's id), 0 when there is none.
WritePanicAt(n, pg) ==
    LET bad == {i \in DOMAIN n.inodes :
                   \/ Len(n.inodes[i].key) = 0
                   \/ ~n.is_leaf /\ n.inodes[i].pgid = pg.id}
    IN  IF bad = {} THEN 0 ELSE Min(bad)

\* write(p), lines 304-379: the page afterwards. A panic leaves what was
\* written before it: the flag when there are too many inodes; the count, the
\* elements and the bytes of the inodes before the panicking one, and the
\* element of a branch inode that fails the assert on its pgid.
WriteNodePage(n, pg) ==
    LET flagged == [pg EXCEPT !.flags = OrFlag(pg.flags,
                        IF n.is_leaf THEN LEAF_PAGE_FLAG ELSE BRANCH_PAGE_FLAG)]
        stop == WritePanicAt(n, pg)
        done == IF stop = 0 THEN Len(n.inodes) ELSE stop - 1
        elems == IF stop # 0 /\ Len(n.inodes[stop].key) # 0 THEN stop ELSE done
    IN  IF Len(n.inodes) >= INODE_OVERFLOW THEN flagged
        ELSE [flagged EXCEPT !.count = Len(n.inodes),
                             !.elems = [i \in 1..elems |-> WriteElem(n, i)],
                             !.data = NodeData(n.inodes, done)]

\* Whether write(p) panics, lines 312-314, 329, 351.
WriteNodePanics(n, pg) ==
    Len(n.inodes) >= INODE_OVERFLOW \/ WritePanicAt(n, pg) # 0

\* leaf_page_element(i) / branch_page_element(i), page.rs lines 70-75 and
\* 85-90: element i (0-based) of the page; zeroes where nothing was written.
PageElem(pg, i) ==
    IF i + 1 \in DOMAIN pg.elems THEN pg.elems[i + 1]
    ELSE [pos |-> 0, flags |-> 0, ksize |-> 0, vsize |-> 0, pgid |-> 0]

\* The byte at an offset from the page's first element: the bytes behind the
\* count elements are those write copied; zero elsewhere.
PageByte(pg, elsz, off) ==
    LET k == off - pg.count * elsz + 1
    IN  IF k \in DOMAIN pg.data THEN pg.data[k] ELSE 0

\* key() and value() of an element, page.rs lines 119-125 and 143-156: len
\* bytes from the element's own address plus start.
ElemBytes(pg, elsz, i, start, len) ==
    [k \in 1..len |-> PageByte(pg, elsz, i * elsz + start + k - 1)]

\* Lines 270-291: the inode read makes of element i (0-based).
ReadInode(pg, leaf, i) ==
    LET elem == PageElem(pg, i)
        elsz == IF leaf THEN LEAF_PAGE_ELEMENT_SIZE ELSE BRANCH_PAGE_ELEMENT_SIZE
    IN  IF leaf
        THEN [flags |-> elem.flags, pgid |-> 0,
              key |-> ElemBytes(pg, elsz, i, elem.pos, elem.ksize),
              value |-> Some(ElemBytes(pg, elsz, i, elem.pos + elem.ksize, elem.vsize))]
        ELSE [flags |-> 0, pgid |-> elem.pgid,
              key |-> ElemBytes(pg, elsz, i, elem.pos, elem.ksize),
              value |-> None]

\* Line 292: read panics at an element whose key is empty.
ReadNodePanics(pg) ==
    \E i \in 0..(pg.count - 1) :
        Len(ReadInode(pg, HasFlag(pg.flags, LEAF_PAGE_FLAG), i).key) = 0

\* read(p), lines 265-302, when it does not panic: the node afterwards.
ReadNodePage(n, pg) ==
    LET leaf == HasFlag(pg.flags, LEAF_PAGE_FLAG)
        inodes == [i \in 1..pg.count |-> ReadInode(pg, leaf, i - 1)]
    IN  [n EXCEPT !.pgid = pg.id,
                  !.is_leaf = leaf,
                  !.inodes = inodes,
                  !.key = IF Len(inodes) > 0 THEN inodes[1].key ELSE <<>>]

\* ------------------------------------------------------------------ node: split
\* ElemSize that leaves the value out.
ElemSizeNoValue(n, i) == page_element_size(n) + Len(n.inodes[i].key)

\* The size of inode i on a page, lines 69-72, 561-564.
ElemSize(n, i) ==
    page_element_size(n) + Len(n.inodes[i].key) + Len(ValueBytes(n.inodes[i].value))

\* size(), lines 66-76, of the first k inodes.
RECURSIVE SizeUpTo(_, _)
SizeUpTo(n, k) ==
    IF k = 0 THEN PAGE_HEADER_SIZE ELSE SizeUpTo(n, k - 1) + ElemSize(n, k)

size(n) == SizeUpTo(n, Len(n.inodes))

\* size_less_than that leaves the page header out.
SizeLessThanNoHeader(n, v) ==
    \A k \in 1..Len(n.inodes) : SizeUpTo(n, k) - PAGE_HEADER_SIZE < v

\* size_less_than(v), lines 81-94: false as soon as the running size, taken
\* after each inode, reaches v.
size_less_than(n, v) ==
    \A k \in 1..Len(n.inodes) : SizeUpTo(n, k) < v

\* The guard of split_two with half the page as the size a node may have.
NoSplitHalfPage(n, page_size) ==
    Len(n.inodes) < MIN_KEYS_PER_PAGE * 2 \/ size_less_than(n, page_size \div 2)

\* Lines 490-492: split_two returns None.
NoSplit(n, page_size) ==
    Len(n.inodes) < MIN_KEYS_PER_PAGE * 2 \/ size_less_than(n, page_size)

\* Lines 495-501: the threshold, for a fill percent in tenths.
Threshold(fp, page_size) ==
    LET clamped == IF fp < MIN_FILL_PERCENT THEN MIN_FILL_PERCENT
                   ELSE IF fp > MAX_FILL_PERCENT THEN MAX_FILL_PERCENT
                   ELSE fp
    IN  (clamped * page_size) \div 10

\* The loop of split_index, lines 558-574, from i on (0-based), with index
\* and sz as the iterations before left them.
RECURSIVE SplitIndexFrom(_, _, _, _, _)
SplitIndexFrom(n, threshold, i, index, sz) ==
    IF i >= Len(n.inodes) - MIN_KEYS_PER_PAGE THEN [index |-> index, sz |-> sz]
    ELSE IF i > MIN_KEYS_PER_PAGE /\ sz + ElemSize(n, i + 1) > threshold
         THEN [index |-> i, sz |-> sz]
         ELSE SplitIndexFrom(n, threshold, i + 1, i, sz + ElemSize(n, i + 1))

\* split_index(threshold), lines 553-576.
split_index(n, threshold) == SplitIndexFrom(n, threshold, 0, 0, PAGE_HEADER_SIZE)

\* split_off that loses the inode at the index.
SplitOffSkip(inodes, at) ==
    [left |-> SubSeq(inodes, 1, at), right |-> SubSeq(inodes, at + 2, Len(inodes))]

\* Vec::split_off(at), line 523: the vector keeps [0, at), the result has the
\* rest.
split_off(inodes, at) ==
    [left |-> SubSeq(inodes, 1, at), right |-> SubSeq(inodes, at + 1, Len(inodes))]

\* split_two that leaves the node without the parent it makes.
ParentKept(n) == n.parent

\* The parent of a node after split_two has split it, lines 507-513: the one
\* it had, or the new one.
ParentAfter(n) == IF n.parent = "none" THEN "new" ELSE n.parent

\* split, lines 458-483, with split_two, lines 487-548: the node as split
\* leaves it, followed by the nodes split returns. Each split_two that splits
\* keeps inodes[0, split_index) and gives the rest to next, which has the
\* parent of the node and is split in its turn.
RECURSIVE SplitChain(_, _, _)
SplitChain(n, page_size, fp) ==
    IF NoSplit(n, page_size) THEN <<n>>
    ELSE LET parts == split_off(n.inodes, split_index(n, Threshold(fp, page_size)).index)
             next == [is_leaf |-> n.is_leaf, unbalanced |-> FALSE, spilled |-> FALSE,
                      key |-> <<>>,
                      pgid |-> 0, inodes |-> parts.right, parent |-> ParentAfter(n)]
         IN  <<[n EXCEPT !.inodes = parts.left, !.parent = ParentAfter(n)]>>
                 \o SplitChain(next, page_size, fp)

\* The freelist as the database opens it: FreeList::new (lines 18-24), then read
\* of the freelist page (lines 182-210); the empty page leaves it as new made it.
\* merge_pgids is not running.
InitOver(P) ==
    /\ \E page \in Pages(P) :
          /\ ids = ReadIds(<<>>, page)
          /\ cache = ReindexCache(ReadIds(<<>>, page), <<>>)
          /\ loaded = (page # <<>>)
    /\ pending = <<>>
    /\ status = "ok"
    /\ call = NoCall
    /\ unreleased = {}
    /\ m_a = <<>> /\ m_b = <<>> /\ m_cap = 0 /\ m_dst = <<>>
    /\ m_lead = <<>> /\ m_follow = <<>> /\ m_pc = "idle"
    /\ LoadIdle
    /\ NodeIdle

Init == InitOver(PgIds)

\* Tx::page(pgid), tx.rs lines 26-28, is not written (unimplemented!()): by
\* its comment it returns the page with the given id; the page has the
\* overflow it was written with.
TxPage(pgid, overflow) == [id |-> pgid, overflow |-> overflow]

\* allocate that takes the pgids 0 .. n-1 out of the cache when it finds no run
\* as well.
AllocateDropsCache(n) ==
    /\ status = "ok"
    /\ LET r == IF Len(ids) = 0 THEN [kind |-> "none", idx |-> 0, initial |-> 0]
                ELSE AllocScan(ids, n, 1, 0, 0)
           found == r.kind = "found"
       IN  /\ ids' = IF found THEN AllocDrain(ids, n, r.idx) ELSE ids
           /\ cache' = AllocCache(cache, n, r.initial)
           /\ status' = IF r.kind = "panic" THEN "panic" ELSE "ok"
           /\ call' = [NoCall EXCEPT !.op = "allocate", !.n = n,
                                     !.ret = IF found THEN r.initial ELSE 0]
    /\ UNCHANGED <<pending, unreleased, loaded>>
    /\ UNCHANGED nonFlVars

\* allocate(n), lines 67-116.
Allocate(n) ==
    /\ status = "ok"
    /\ LET r == IF Len(ids) = 0 THEN [kind |-> "none", idx |-> 0, initial |-> 0]
                ELSE AllocScan(ids, n, 1, 0, 0)
           found == r.kind = "found"
       IN  /\ ids' = IF found THEN AllocDrain(ids, n, r.idx) ELSE ids
           /\ cache' = IF found THEN AllocCache(cache, n, r.initial) ELSE cache
           /\ status' = IF r.kind = "panic" THEN "panic" ELSE "ok"
           /\ call' = [NoCall EXCEPT !.op = "allocate", !.n = n,
                                     !.ret = IF found THEN r.initial ELSE 0]
    /\ UNCHANGED <<pending, unreleased, loaded>>
    /\ UNCHANGED nonFlVars

\* free(txid, page) for a page with id pgid and overflow pages, lines 120-146.
Free(txid, pgid, overflow) ==
    /\ status = "ok"
    /\ pending_count(pending) + overflow + 1 <= MaxPending
    /\ call' = [NoCall EXCEPT !.op = "free", !.txid = txid, !.pgid = pgid,
                              !.overflow = overflow]
    /\ IF FreeReserved(pgid)
       THEN /\ status' = "panic"
            /\ UNCHANGED <<pending, cache, unreleased>>
       ELSE LET pushed == FreePushed(cache, pgid, overflow)
                old == IF txid \in DOMAIN pending THEN pending[txid] ELSE <<>>
            IN  /\ pending' = [t \in DOMAIN pending \cup {txid} |->
                                  IF t = txid THEN old \o pushed ELSE pending[t]]
                /\ cache' = cache \cup SeqSet(pushed)
                /\ unreleased' = unreleased \cup {<<id, txid>> : id \in SeqSet(pushed)}
                /\ status' = IF FreePanics(cache, pgid, overflow) THEN "panic" ELSE "ok"
    /\ UNCHANGED <<ids, loaded>>
    /\ UNCHANGED nonFlVars

\* release(txid), lines 149-163.
Release(txid) ==
    /\ status = "ok"
    /\ LET m == SortPgids(PendingConcat(pending, ReleaseTids(pending, txid)))
           r == merge_pgids(Len(ids) + Len(m), ids, m)
       IN  /\ pending' = ReleaseRetain(pending, txid)
           /\ ids' = IF r.res = "ok" THEN r.dst ELSE ids
           /\ status' = r.res
    /\ call' = [NoCall EXCEPT !.op = "release", !.txid = txid]
    /\ unreleased' = {e \in unreleased : e[2] > txid}
    /\ UNCHANGED <<cache, loaded>>
    /\ UNCHANGED nonFlVars

\* rollback(txid), lines 166-174: pending[&txid] panics for a txid with no entry.
Rollback(txid) ==
    /\ status = "ok"
    /\ call' = [NoCall EXCEPT !.op = "rollback", !.txid = txid]
    /\ IF txid \notin DOMAIN pending
       THEN /\ status' = "panic"
            /\ UNCHANGED <<pending, cache, unreleased>>
       ELSE /\ cache' = RollbackCache(cache, pending[txid])
            /\ pending' = [t \in DOMAIN pending \ {txid} |-> pending[t]]
            /\ unreleased' = {e \in unreleased : e[2] # txid}
            /\ status' = "ok"
    /\ UNCHANGED <<ids, loaded>>
    /\ UNCHANGED nonFlVars

\* read(page), lines 182-210.
Read(page) ==
    /\ status = "ok"
    /\ Len(ids) + Len(page) <= MaxPgid + 1
    /\ ids' = ReadIds(ids, page)
    /\ cache' = ReindexCache(ids', pending)
    /\ call' = [NoCall EXCEPT !.op = "read"]
    /\ loaded' = TRUE
    /\ UNCHANGED <<pending, status, unreleased>>
    /\ UNCHANGED nonFlVars

\* reload(page), lines 249-274.
Reload(page) ==
    /\ status = "ok"
    /\ Len(ids) + Len(page) <= MaxPgid + 1
    /\ ids' = ReloadFilter(ReadIds(ids, page), pending)
    /\ cache' = ReindexCache(ids', pending)
    /\ call' = [NoCall EXCEPT !.op = "reload"]
    /\ loaded' = TRUE
    /\ UNCHANGED <<pending, status, unreleased>>
    /\ UNCHANGED nonFlVars

\* reindex(), lines 277-289.
Reindex ==
    /\ status = "ok"
    /\ cache' = ReindexCache(ids, pending)
    /\ call' = [NoCall EXCEPT !.op = "reindex"]
    /\ UNCHANGED <<ids, pending, status, unreleased, loaded>>
    /\ UNCHANGED nonFlVars

NextOver(P) ==
    \/ \E n \in 0..MaxAlloc : Allocate(n)
    \/ \E txid \in TxIds, pgid \in P, overflow \in 0..MaxOverflow :
          (pgid + overflow) \in P /\ Free(txid, pgid, overflow)
    \/ \E txid \in TxIds : Release(txid)
    \/ \E txid \in TxIds : Rollback(txid)
    \/ Reindex

Next == NextOver(PgIds)

Spec == Init /\ [][Next]_vars

\* The same freelist over WidePgIds.
InitWide == InitOver(WidePgIds)

NextWide == NextOver(WidePgIds)

SpecWide == InitWide /\ [][NextWide]_vars

\* ------------------------------------------------------------------ merge_pgids, step by step
MergeLists == {SetToSeq(S) : S \in SUBSET (1..MaxMergeId)}

\* A call merge_pgids(dst, a, b) with dst empty, of capacity len(a)+len(b) (what
\* release passes, freelist.rs line 160) or one short of it.
InitMerge ==
    /\ ids = <<>> /\ pending = <<>> /\ cache = {} /\ status = "ok"
    /\ call = NoCall /\ unreleased = {} /\ loaded = FALSE
    /\ m_a \in MergeLists
    /\ m_b \in MergeLists
    /\ m_cap \in {c \in {Len(m_a) + Len(m_b) - 1, Len(m_a) + Len(m_b)} : c >= 0}
    /\ m_dst = <<>>
    /\ m_lead = <<>> /\ m_follow = <<>>
    /\ m_pc = "start"
    /\ LoadIdle
    /\ NodeIdle

\* Lines 169-190: the checks, the two appends of an empty copy, the choice of lead.
MergeStart ==
    /\ m_pc = "start"
    /\ IF MergeBadLen(m_cap, m_a, m_b) \/ MergeIndexPanics(m_a, m_b)
       THEN /\ m_pc' = "panic"
            /\ UNCHANGED <<m_lead, m_follow>>
       ELSE /\ m_lead' = MergeLead(m_a, m_b)
            /\ m_follow' = MergeFollow(m_a, m_b)
            /\ m_pc' = "loop"
    /\ UNCHANGED <<m_a, m_b, m_cap, m_dst>>
    /\ UNCHANGED nonMergeVars

\* Lines 193-214: one iteration of the loop; the iteration that breaks also
\* appends what is left in follow.
MergeIter ==
    /\ m_pc = "loop"
    /\ LET n == BinarySearch(m_lead, m_follow[1])
       IN  IF n >= Len(m_lead)
           THEN /\ m_dst' = m_dst \o SubSeq(m_lead, 1, n) \o m_follow
                /\ m_pc' = "done"
                /\ UNCHANGED <<m_lead, m_follow>>
           ELSE /\ m_dst' = m_dst \o SubSeq(m_lead, 1, n)
                /\ m_lead' = m_follow
                /\ m_follow' = SubSeq(m_lead, n + 1, Len(m_lead))
                /\ m_pc' = "loop"
    /\ UNCHANGED <<m_a, m_b, m_cap>>
    /\ UNCHANGED nonMergeVars

NextMerge == MergeStart \/ MergeIter

SpecMerge == InitMerge /\ [][NextMerge]_vars

\* The call runs on: a step of merge_pgids that can change the state is taken.
SpecMergeFair == SpecMerge /\ WF_vars(NextMerge)

\* ------------------------------------------------------------------ the freelist page
\* write(p) on a zeroed page, lines 215-246.
Write ==
    /\ status = "ok"
    /\ flpage' = WritePage(ids, pending)
    /\ wrote' = [done |-> TRUE, ids |-> ids, pending |-> pending]
    /\ call' = [NoCall EXCEPT !.op = "write"]
    /\ UNCHANGED <<ids, pending, cache, status, unreleased, loaded, f2>>
    /\ UNCHANGED <<mergeVars, nodeVars, bucketVars>>

\* FreeList::new, then read(p) of the freelist page, lines 18-24 and 182-210.
ReadFresh ==
    /\ status = "ok"
    /\ LET s == ReadIds(NewFreeList.ids, PageSlice(flpage))
       IN  f2' = [ids |-> s, pending |-> NewFreeList.pending,
                  cache |-> ReindexCache(s, NewFreeList.pending)]
    /\ call' = [NoCall EXCEPT !.op = "read_fresh"]
    /\ UNCHANGED <<ids, pending, cache, status, unreleased, loaded, flpage, wrote>>
    /\ UNCHANGED <<mergeVars, nodeVars, bucketVars>>

\* The freelist with its page: pages are freed, the freelist is written to its
\* page, the page is read by a new freelist.
InitLoad == InitOver(PgIds)

NextLoad ==
    \/ \E txid \in TxIds, pgid \in PgIds, overflow \in 0..MaxOverflow :
          (pgid + overflow) \in PgIds /\ Free(txid, pgid, overflow)
    \/ Write
    \/ ReadFresh

SpecLoad == InitLoad /\ [][NextLoad]_vars

\* The same, and the freelist reloads its page.
NextReload ==
    \/ NextLoad
    \/ Reload(PageSlice(flpage))

SpecReload == InitLoad /\ [][NextReload]_vars

\* The freelist reads a page again, with pages freed between the reads.
NextRead ==
    \/ \E txid \in TxIds, pgid \in PgIds, overflow \in 0..MaxOverflow :
          (pgid + overflow) \in PgIds /\ Free(txid, pgid, overflow)
    \/ \E page \in Pages(PgIds) : Read(page)

SpecRead == InitLoad /\ [][NextRead]_vars

\* ------------------------------------------------------------------ node: put and del
\* put(old_key, new_key, value, pgid, flags), lines 211-249.
Put(old_key, new_key, value, pgid, flags) ==
    /\ nstatus = "ok"
    /\ ncall' = [NoNodeCall EXCEPT !.op = "put"]
    /\ IF PutPanics(hwm, old_key, new_key, pgid)
       THEN /\ nstatus' = "panic"
            /\ UNCHANGED <<node, nhist>>
       ELSE /\ nstatus' = "ok"
            /\ node' = [node EXCEPT !.inodes =
                           PutInodes(node.inodes, old_key, new_key, value, pgid, flags)]
            /\ nhist' = IF nhist.plain /\ old_key = new_key
                        THEN [nhist EXCEPT !.latest =
                                 [k \in DOMAIN nhist.latest \cup {new_key} |->
                                     IF k = new_key THEN [value |-> value, flags |-> flags]
                                     ELSE nhist.latest[k]]]
                        ELSE [plain |-> FALSE, latest |-> <<>>]
    /\ UNCHANGED <<pnode, kids, kid_list, hwm, meta_txid, siblings, children, new_parents, stats_split, fill_percent, npage, node2>>
    /\ UNCHANGED <<flVars, mergeVars, loadVars, bucketVars>>

\* del(key), lines 251-263.
Del(key) ==
    /\ nstatus = "ok"
    /\ ncall' = [NoNodeCall EXCEPT !.op = "del"]
    /\ node' = [node EXCEPT !.inodes = DelInodes(node.inodes, key),
                            !.unbalanced = DelUnbalanced(node, key)]
    /\ nhist' = [nhist EXCEPT !.latest = [k \in DOMAIN nhist.latest \ {key} |-> nhist.latest[k]]]
    /\ UNCHANGED <<pnode, kids, kid_list, hwm, meta_txid, nstatus, siblings, children, new_parents, stats_split, fill_percent, npage, node2>>
    /\ UNCHANGED <<flVars, mergeVars, loadVars, bucketVars>>

\* The keys the callers pass, the empty key among them, and the value, pgid and
\* flags passed with a key: those of spill (line 644: no value, the child's
\* pgid, flags 0), those of the tests (lines 750-753: a value, pgid 0, flags 0 or
\* 0x02), and a pgid above tx.meta.pgid.
PutKeys == {<<b>> : b \in 1..MaxKeyByte} \cup {<<1, 1>>}
PutArgs ==
    { [value |-> None, pgid |-> TestMetaPgid, flags |-> 0],
      [value |-> Some(<<1>>), pgid |-> 0, flags |-> 0],
      [value |-> Some(<<1, 2>>), pgid |-> 0, flags |-> 2],
      [value |-> None, pgid |-> TestMetaPgid + 1, flags |-> 0] }

\* A node of a bucket of a transaction, leaf or branch: Node::new, is_leaf as
\* the caller sets it, tx.meta.pgid as Meta::new or the tests set it.
InitNode ==
    /\ FreeListIdle
    /\ \E l \in BOOLEAN : node = [NewNode EXCEPT !.is_leaf = l]
    /\ hwm \in 0..TestMetaPgid
    /\ meta_txid = 0
    /\ nstatus = "ok"
    /\ ncall = NoNodeCall
    /\ nhist = NoHist
    /\ SplitIdle
    /\ NodePageIdle
    /\ BucketIdle

\* The callers of put (the tests with old_key = new_key; spill, line 644, with
\* the old and the new first key of a child) keep the keys in increasing order.
NextNode ==
    \/ \E old_key, new_key \in PutKeys \cup {<<>>}, a \in PutArgs :
          /\ \/ PutPanics(hwm, old_key, new_key, a.pgid)
             \/ old_key = new_key
             \/ KeysAscending(PutInodes(node.inodes, old_key, new_key, a.value, a.pgid, a.flags))
          /\ Put(old_key, new_key, a.value, a.pgid, a.flags)
    \/ \E key \in PutKeys \cup {<<>>} : Del(key)

SpecNode == InitNode /\ [][NextNode]_vars

\* ------------------------------------------------------------------ node: write and read
\* write(p) of the node to the page, lines 304-379.
WriteNode ==
    /\ nstatus = "ok"
    /\ ncall' = [NoNodeCall EXCEPT !.op = "write"]
    /\ npage' = WriteNodePage(node, npage)
    /\ nstatus' = IF WriteNodePanics(node, npage) THEN "panic" ELSE "ok"
    /\ UNCHANGED <<node, pnode, kids, kid_list, hwm, meta_txid, nhist, siblings, children, new_parents, stats_split, fill_percent, node2>>
    /\ UNCHANGED <<flVars, mergeVars, loadVars, bucketVars>>

\* Node::new, then read(p) of the page, lines 26-39 and 265-302.
ReadNode ==
    /\ nstatus = "ok"
    /\ ncall' = [NoNodeCall EXCEPT !.op = "read"]
    /\ IF ReadNodePanics(npage)
       THEN /\ nstatus' = "panic"
            /\ UNCHANGED node2
       ELSE /\ nstatus' = "ok"
            /\ node2' = ReadNodePage(NewNode, npage)
    /\ UNCHANGED <<node, pnode, kids, kid_list, hwm, meta_txid, nhist, siblings, children, new_parents, stats_split, fill_percent, npage>>
    /\ UNCHANGED <<flVars, mergeVars, loadVars, bucketVars>>

\* The keys of a set in increasing order.
RECURSIVE KeySeq(_)
KeySeq(S) ==
    IF S = {} THEN <<>>
    ELSE LET k == CHOOSE k \in S : \A o \in S \ {k} : KeyLess(k, o)
         IN  <<k>> \o KeySeq(S \ {k})

\* The value, pgid and flags of the inodes of a node that is written: those put
\* passes without panic, and the empty value.
NodeArgs ==
    {a \in PutArgs : a.pgid <= TestMetaPgid}
        \cup {[value |-> Some(<<>>), pgid |-> 0, flags |-> 0]}

\* The inodes put builds from the keys S with the arguments f[k] for key k.
InodesOf(S, f) ==
    LET ks == KeySeq(S)
    IN  [i \in 1..Len(ks) |-> [flags |-> f[ks[i]].flags, pgid |-> f[ks[i]].pgid,
                               key |-> ks[i], value |-> f[ks[i]].value]]

\* A node, leaf or branch, as put has built it, and a zeroed page.
InitPage ==
    /\ FreeListIdle
    /\ \E l \in BOOLEAN, S \in SUBSET PutKeys :
          \E f \in [S -> NodeArgs] :
             node = [NewNode EXCEPT !.is_leaf = l, !.inodes = InodesOf(S, f)]
    /\ hwm = TestMetaPgid
    /\ meta_txid = 0
    /\ nstatus = "ok"
    /\ ncall = NoNodeCall
    /\ nhist = NoHist
    /\ SplitIdle
    /\ NodePageIdle
    /\ BucketIdle

NextPage == WriteNode \/ ReadNode

SpecPage == InitPage /\ [][NextPage]_vars

\* ------------------------------------------------------------------ node: split
\* split(page_size, new_parents), lines 458-483. Each split_two that splits
\* makes one node, counts it in stats.split (the count names the node in the
\* child lists; the node itself is 0) and pushes it to the children of the
\* parent; the first one makes the parent when there is none, with the node
\* as its first child, and pushes it to new_parents.
Split(page_size) ==
    LET chain == SplitChain(node, page_size, fill_percent)
        k == Len(chain) - 1
        made == [j \in 1..k |-> stats_split + j]
    IN  /\ nstatus = "ok"
        /\ ncall' = [NoNodeCall EXCEPT !.op = "split", !.page_size = page_size]
        /\ node' = chain[1]
        /\ siblings' = Tail(chain)
        /\ stats_split' = stats_split + k
        /\ new_parents' =
              IF k = 0 THEN new_parents
              ELSE IF node.parent = "none" THEN Append(new_parents, <<0>> \o made)
              ELSE IF node.parent = "new"
                   THEN [new_parents EXCEPT ![Len(new_parents)] = @ \o made]
                   ELSE new_parents
        /\ children' = IF k > 0 /\ node.parent = "old" THEN children \o made ELSE children
        /\ UNCHANGED <<pnode, kids, kid_list, hwm, meta_txid, nstatus, nhist, fill_percent, npage, node2>>
        /\ UNCHANGED <<flVars, mergeVars, loadVars, bucketVars>>

\* The page sizes of the tests of split (20, 100, 4096), and two between.
PageSizes == {20, 60, 80, 100, 4096}

\* The fill percents: as Bucket::new sets it, the default, the maximum.
FillPercents == {NEW_FILL_PERCENT, DEFAULT_FILL_PERCENT, MAX_FILL_PERCENT}

\* A key that starts with byte b, of 1 byte or of 23.
SplitKey(b, long) == IF long THEN <<b>> \o [j \in 1..22 |-> 0] ELSE <<b>>

\* A node as put has built it, with keys in increasing order: the inodes of a
\* leaf have a value of one byte, those of a branch none; an inode takes 18 or
\* 40 bytes of a leaf page (as those of the tests do), 17 or 39 of a branch
\* page. The node has no parent, or one that has it as its child.
InitSplit ==
    /\ FreeListIdle
    /\ \E l \in BOOLEAN, len \in 0..MaxSplitLen, par \in {"none", "old"} :
          \E long \in [1..len -> BOOLEAN] :
             /\ node = [NewNode EXCEPT
                   !.is_leaf = l,
                   !.parent = par,
                   !.inodes = [i \in 1..len |->
                                 [flags |-> 0, pgid |-> 0, key |-> SplitKey(i, long[i]),
                                  value |-> IF l THEN Some(<<7>>) ELSE None]]]
             /\ children = IF par = "old" THEN <<0>> ELSE <<>>
    /\ pnode = NoParent
    /\ hwm = TestMetaPgid
    /\ meta_txid = 0
    /\ nstatus = "ok"
    /\ ncall = NoNodeCall
    /\ nhist = NoHist
    /\ siblings = <<>>
    /\ new_parents = <<>>
    /\ stats_split = 0
    /\ kids = <<>>
    /\ kid_list = <<>>
    /\ fill_percent \in FillPercents
    /\ NodePageIdle
    /\ BucketIdle

NextSplit == \E page_size \in PageSizes : Split(page_size)

SpecSplit == InitSplit /\ [][NextSplit]_vars

\* ------------------------------------------------------------------ node: spill
\* The first key of child i, which sort_by_key reads (lines 592-594).
KidKey(i) == kids[i].n.inodes[1].key

\* Lines 591-595: the stable sort of the child list by first key; a list of
\* one child is not compared.
RECURSIVE SortKids(_)
SortKids(list) ==
    IF Len(list) < 2 THEN list
    ELSE LET first == Min({p \in DOMAIN list :
                              \A q \in DOMAIN list : ~KeyLess(KidKey(list[q]), KidKey(list[p]))})
         IN  <<list[first]>> \o SortKids(RemoveAt(list, first))

\* Lines 592-593: the sort compares, when it has two children or more, and
\* inodes[0] of a child without inodes is out of bounds.
SortKidsPanics(list) ==
    Len(list) >= 2 /\ \E p \in DOMAIN list : kids[list[p]].n.inodes = <<>>

\* The child list in any order: what a sort that panicked leaves.
KidOrders(list) ==
    {[p \in DOMAIN list |-> list[f[p]]] :
        f \in {g \in [DOMAIN list -> DOMAIN list] :
                 \A p, q \in DOMAIN list : p # q => g[p] # g[q]}}

\* The position in the list of the first child that is not spilled, 0 when all
\* are.
FirstUnspilled(list) ==
    IF \E p \in DOMAIN list : ~kids[list[p]].n.spilled
    THEN Min({p \in DOMAIN list : ~kids[list[p]].n.spilled})
    ELSE 0

\* spill() of a child that is not spilled, called at line 598 while its parent
\* is mutably borrowed: a child that does not split reaches line 660, a child
\* that splits has given its upper inodes to the new node (line 525) when
\* split_two borrows the parent at line 536; both borrows panic.
KidAfterSpill(c, page_size) ==
    IF NoSplit(c, page_size) THEN c
    ELSE [c EXCEPT !.inodes =
             split_off(c.inodes, split_index(c, Threshold(fill_percent, page_size)).index).left]

\* A test of the spilled flag that never finds it set.
SpilledNever(n) == FALSE

\* Line 582: the node has been spilled.
Spilled(n) == n.spilled

\* spill(), lines 580-667, called as n.borrow_mut().spill() with
\* db.page_size = page_size.
\*   - Lines 582-584: a spilled node returns Ok at once.
\*   - Lines 589-606: the children are sorted and spilled in that order; a
\*     spilled child returns Ok at once, the first child that is not panics;
\*     after the last child the list is cleared.
\*   - Line 612: split. nodes holds what split returns, the new nodes only.
\*   - Lines 613-654, for each new node: its pgid is 0, so nothing is freed;
\*     line 621 takes tx.borrow_mut() and, for the argument of allocate,
\*     tx.borrow(): the RefCell is already borrowed and the call panics before
\*     tx.allocate is entered. The split stays done.
\*   - Lines 658-664, when split returned nothing: a parent whose pgid is 0 is
\*     spilled; a spilled parent returns Ok at once; one that is not spilled
\*     borrows its children, the node among them, which is borrowed by the
\*     caller: panic.
Spill(page_size) ==
    LET chain == SplitChain(node, page_size, fill_percent)
        k == Len(chain) - 1
        made == [j \in 1..k |-> stats_split + j]
        sorted == SortKids(kid_list)
        u == FirstUnspilled(sorted)
        last == IF u = 0 THEN Len(sorted) ELSE u
        called == [i \in DOMAIN kids |->
                     IF \E p \in 1..last : sorted[p] = i
                     THEN [n |-> IF kids[i].n.spilled THEN kids[i].n
                                 ELSE KidAfterSpill(kids[i].n, page_size),
                           called |-> CHOOSE p \in 1..last : sorted[p] = i]
                     ELSE kids[i]]
    IN  /\ nstatus = "ok"
        /\ ncall' = [NoNodeCall EXCEPT !.op = "spill", !.page_size = page_size]
        /\ IF Spilled(node)
           THEN /\ nstatus' = "ok"
                /\ new_parents' = <<>>
                /\ UNCHANGED <<node, siblings, children, stats_split, kids, kid_list>>
           ELSE IF SortKidsPanics(kid_list)
           THEN /\ nstatus' = "panic"
                /\ new_parents' = <<>>
                /\ kid_list' \in KidOrders(kid_list)
                /\ UNCHANGED <<node, siblings, children, stats_split, kids>>
           ELSE IF u > 0
           THEN /\ nstatus' = "panic"
                /\ new_parents' = <<>>
                /\ kids' = called
                /\ kid_list' = sorted
                /\ UNCHANGED <<node, siblings, children, stats_split>>
           ELSE /\ kids' = called
                /\ kid_list' = <<>>
                /\ IF k > 0
                   THEN /\ node' = chain[1]
                        /\ siblings' = Tail(chain)
                        /\ stats_split' = stats_split + k
                        /\ new_parents' = IF node.parent = "none" THEN <<(<<0>> \o made)>> ELSE <<>>
                        /\ children' = IF node.parent = "old" THEN children \o made ELSE children
                        /\ nstatus' = "panic"
                   ELSE /\ nstatus' = IF node.parent = "old" /\ pnode.pgid = 0 /\ ~pnode.spilled
                                      THEN "panic" ELSE "ok"
                        /\ new_parents' = <<>>
                        /\ UNCHANGED <<node, siblings, children, stats_split>>
        /\ UNCHANGED <<pnode, hwm, meta_txid, nhist, fill_percent, npage, node2>>
        /\ UNCHANGED <<flVars, mergeVars, loadVars, bucketVars>>

\* A node as for split, spilled or not, with a pgid up to tx.meta.pgid; its
\* parent, when it has one, spilled or not, with a pgid up to tx.meta.pgid.
InitSpill ==
    /\ FreeListIdle
    /\ \E l \in BOOLEAN, len \in 0..MaxSplitLen, par \in {"none", "old"},
          sp \in BOOLEAN, pg \in 0..TestMetaPgid :
          \E long \in [1..len -> BOOLEAN] :
             /\ node = [NewNode EXCEPT
                   !.is_leaf = l,
                   !.spilled = sp,
                   !.pgid = pg,
                   !.parent = par,
                   !.inodes = [i \in 1..len |->
                                 [flags |-> 0, pgid |-> 0, key |-> SplitKey(i, long[i]),
                                  value |-> IF l THEN Some(<<7>>) ELSE None]]]
             /\ children = IF par = "old" THEN <<0>> ELSE <<>>
             /\ IF par = "old"
                THEN pnode \in [pgid : 0..TestMetaPgid, spilled : BOOLEAN]
                ELSE pnode = NoParent
    /\ hwm = TestMetaPgid
    /\ meta_txid = 0
    /\ nstatus = "ok"
    /\ ncall = NoNodeCall
    /\ nhist = NoHist
    /\ siblings = <<>>
    /\ new_parents = <<>>
    /\ stats_split = 0
    /\ kids = <<>>
    /\ kid_list = <<>>
    /\ fill_percent \in FillPercents
    /\ NodePageIdle
    /\ BucketIdle

NextSpill == \E page_size \in PageSizes : Spill(page_size)

SpecSpill == InitSpill /\ [][NextSpill]_vars

\* A child: a leaf with the node as its parent, spilled or not, with no inode,
\* one inode, or four inodes of 40 bytes each; its first key starts with 1, 2
\* or 3.
KidNodes ==
    {[NewNode EXCEPT
         !.is_leaf = TRUE,
         !.spilled = sp,
         !.parent = "old",
         !.inodes = [i \in 1..len |->
                       [flags |-> 0, pgid |-> 0, key |-> SplitKey(b + i - 1, len > 1),
                        value |-> Some(<<7>>)]]] :
        sp \in BOOLEAN, len \in {0, 1, 4}, b \in 1..3}

\* A branch node without parent, spilled or not, with no inode or five of 39
\* bytes each, and up to MaxKids children in its child list, in any order
\* of their keys; spill was called on none.
InitSpillTree ==
    /\ FreeListIdle
    /\ \E sp \in BOOLEAN, len \in {0, 5} :
          node = [NewNode EXCEPT
                     !.spilled = sp,
                     !.inodes = [i \in 1..len |->
                                   [flags |-> 0, pgid |-> 0, key |-> SplitKey(i, TRUE),
                                    value |-> None]]]
    /\ \E nk \in 0..MaxKids :
          /\ kids \in [1..nk -> [n : KidNodes, called : {0}]]
          /\ kid_list = [i \in 1..nk |-> i]
    /\ children = <<>>
    /\ pnode = NoParent
    /\ hwm = TestMetaPgid
    /\ meta_txid = 0
    /\ nstatus = "ok"
    /\ ncall = NoNodeCall
    /\ nhist = NoHist
    /\ siblings = <<>>
    /\ new_parents = <<>>
    /\ stats_split = 0
    /\ fill_percent \in FillPercents
    /\ NodePageIdle
    /\ BucketIdle

NextSpillTree == \E page_size \in PageSizes : Spill(page_size)

SpecSpillTree == InitSpillTree /\ [][NextSpillTree]_vars

\* ------------------------------------------------------------------ tx
\* Tx::free(pgid), tx.rs lines 33-38: free of the freelist, with meta.pgid as
\* the transaction id and with the page tx.page(pgid) gives.
TxFree(pgid, overflow) == Free(hwm, TxPage(pgid, overflow).id, TxPage(pgid, overflow).overflow)

\* A freelist as the database opens it, and a transaction with any meta.pgid
\* and meta.txid.
InitTx ==
    /\ \E page \in Pages(PgIds) :
          /\ ids = ReadIds(<<>>, page)
          /\ cache = ReindexCache(ReadIds(<<>>, page), <<>>)
          /\ loaded = (page # <<>>)
    /\ pending = <<>>
    /\ status = "ok"
    /\ call = NoCall
    /\ unreleased = {}
    /\ m_a = <<>> /\ m_b = <<>> /\ m_cap = 0 /\ m_dst = <<>>
    /\ m_lead = <<>> /\ m_follow = <<>> /\ m_pc = "idle"
    /\ LoadIdle
    /\ node = NewNode
    /\ hwm \in 0..(MaxPgid + 1)
    /\ meta_txid \in 0..MaxTxid
    /\ nstatus = "ok"
    /\ ncall = NoNodeCall
    /\ nhist = NoHist
    /\ SplitIdle
    /\ NodePageIdle
    /\ BucketIdle

NextTx ==
    \/ \E pgid \in PgIds, overflow \in 0..MaxOverflow : TxFree(pgid, overflow)
    \/ Release(meta_txid)

SpecTx == InitTx /\ [][NextTx]_vars

\* ------------------------------------------------------------------ bucket
\* What the database holds at a pgid: the page a node of one inode was written
\* to, a leaf at an odd pgid and a branch at an even one.
DiskNode(pgid) ==
    [NewNode EXCEPT
        !.is_leaf = (pgid % 2 = 1),
        !.inodes = <<[flags |-> 0, pgid |-> pgid + 1, key |-> <<1>>,
                      value |-> IF pgid % 2 = 1 THEN Some(<<7>>) ELSE None]>>]
DiskPage(pgid) == WriteNodePage(DiskNode(pgid), [ZeroNodePage EXCEPT !.id = pgid])

\* Bucket::node that counts the node on every call.
NodeCountAlways(count, cached) == count + 1

\* bucket.rs lines 69-71, 98: node_count after node(pgid, parent).
NodeCountAfter(count, cached) == IF cached THEN count ELSE count + 1

\* Bucket::node(pgid, parent), bucket.rs lines 62-100; parent 0 is None. A
\* cached node is returned. Otherwise a node is made by Node::new (the read of
\* the page, line 93, is commented out), named by the count of nodes made; it
\* is pushed to the children of the parent and gets the parent, or becomes the
\* root node; a bucket without a page gets the page tx.page(pgid); the node is
\* cached under pgid and counted.
BucketNode(pgid, parent) ==
    LET cached == pgid \in DOMAIN bucket.nodes
        n == Len(bnodes) + 1
        made == [node |-> [NewNode EXCEPT !.parent = IF parent = 0 THEN "none" ELSE "old"],
                 parent |-> parent, children |-> <<>>]
    IN  /\ node_count' = NodeCountAfter(node_count, cached)
        /\ IF cached
           THEN /\ bcall' = [op |-> "node", pgid |-> pgid, parent |-> parent,
                             ret |-> bucket.nodes[pgid]]
                /\ UNCHANGED <<bucket, bnodes>>
           ELSE /\ bcall' = [op |-> "node", pgid |-> pgid, parent |-> parent, ret |-> n]
                /\ bnodes' = [i \in 1..n |->
                                IF i = n THEN made
                                ELSE IF i = parent
                                     THEN [bnodes[i] EXCEPT !.children = Append(@, n)]
                                     ELSE bnodes[i]]
                /\ bucket' = [nodes |-> [g \in DOMAIN bucket.nodes \cup {pgid} |->
                                            IF g = pgid THEN n ELSE bucket.nodes[g]],
                              root_node |-> IF parent = 0 THEN n ELSE bucket.root_node,
                              page |-> IF bucket.page.some THEN bucket.page
                                       ELSE [some |-> TRUE, id |-> TxPage(pgid, 0).id]]
        /\ UNCHANGED <<flVars, mergeVars, loadVars, nodeVars>>

\* Bucket::new, and nothing else called.
InitBucket ==
    /\ FreeListIdle
    /\ NodeIdle

NextBucket ==
    \E pgid \in 0..MaxNodePgid, parent \in 0..Len(bnodes) : BucketNode(pgid, parent)

SpecBucket == InitBucket /\ [][NextBucket]_vars

\* ------------------------------------------------------------------ claims
\* The pgids of the page of the last call to free, and of the run the last call
\* to allocate asked for.
PageIds(c) == c.pgid..(c.pgid + c.overflow)
RunIds(c) == c.ret..(c.ret + c.n - 1)
FreeSet == SeqSet(ids) \cup PendingSet(pending)

\* C1: after any sequence of calls that do not panic, cache is exactly the set of
\* the pgids in ids and in the pending lists.
C1_CacheIsUnion == status = "ok" => cache = FreeSet

\* C2: when allocate(n) returns a starting pgid p # 0, none of p .. p+n-1 is in
\* cache, in ids or in a pending list afterwards.
C2_RunIsGone ==
    (call.op = "allocate" /\ status = "ok" /\ call.ret # 0) =>
        \A q \in RunIds(call) : q \notin cache /\ q \notin FreeSet

\* C3: free(txid, page) panics whenever one of the page's pgids is in ids or in a
\* pending list at the call.
C3_DoubleFreePanics ==
    [][(call'.op = "free" /\ PageIds(call') \cap FreeSet # {}) => status' = "panic"]_vars

\* C4: for ascending ids, all > 1, and n >= 1, allocate(n) returns the first pgid
\* of the first run of n consecutive pgids in ids and removes exactly that run,
\* the other ids keeping their order; with no such run it returns 0.
RunAt(s, i, n) == i + n - 1 <= Len(s) /\ \A j \in 0..(n - 1) : s[i + j] = s[i] + j
FirstFit(s, n) ==
    IF \E i \in DOMAIN s : RunAt(s, i, n)
    THEN Min({i \in DOMAIN s : RunAt(s, i, n)})
    ELSE 0
C4_AllocateFirstFit ==
    [][(call'.op = "allocate" /\ call'.n >= 1 /\ IsAscending(ids)
           /\ \A i \in DOMAIN ids : ids[i] > 1) =>
        LET n == call'.n
            i == FirstFit(ids, n)
        IN  /\ status' = "ok"
            /\ IF i = 0 THEN call'.ret = 0
               ELSE /\ call'.ret = ids[i]
                    /\ ids' = SubSeq(ids, 1, i - 1) \o SubSeq(ids, i + n, Len(ids))]_vars
\* allocate(2) took the run 4, 5 from behind the id 2, which stays.
C4_Witness ==
    call.op = "allocate" /\ call.n = 2 /\ call.ret = 4 /\ ids = <<2>> /\ status = "ok"

\* C5: a pgid freed by free(t, page) is not returned by allocate before a
\* release(t') with t' >= t.
C5_PendingNotAllocated ==
    (call.op = "allocate" /\ status = "ok" /\ call.ret # 0) =>
        \A q \in RunIds(call) : \A e \in unreleased : e[1] # q

\* C6: release(txid) never panics; afterwards ids is the ascending union of the
\* old ids and the pgids of every pending[tid] with tid <= txid, those tids are
\* gone from pending and the other lists are unchanged.
C6_ReleaseMerges ==
    [][call'.op = "release" =>
        LET tids == {tid \in DOMAIN pending : tid <= call'.txid}
            drained == UNION {SeqSet(pending[tid]) : tid \in tids}
        IN  /\ status' = "ok"
            /\ ids' = SetToSeq(SeqSet(ids) \cup drained)
            /\ pending' = [tid \in DOMAIN pending \ tids |-> pending[tid]]]_vars

C8_RollbackRemoves ==
    [][(call'.op = "rollback" /\ call'.txid \in DOMAIN pending) =>
        LET t == call'.txid
            gone == SeqSet(pending[t])
        IN  /\ status' = "ok"
            /\ pending' = [u \in DOMAIN pending \ {t} |-> pending[u]]
            /\ cache' = cache \ gone
            /\ ids' = ids
            /\ \A p \in gone : p \notin cache' /\ ~FreeReserved(p) /\ ~FreePanics(cache', p, 0)]_vars
\* A list was rolled back while another transaction's list stays and ids is not
\* empty.
C8_Witness ==
    /\ call.op = "rollback" /\ status = "ok" /\ pending # <<>> /\ ids # <<>>

\* C9: free panics for a page with id <= 1 and adds nothing to pending or cache;
\* allocate panics when ids holds an id <= 1; and from the empty freelist neither
\* ids nor a pending list ever holds 0 or 1.
C9_ReservedNeverFree ==
    /\ [](~loaded => FreeSet \cap {0, 1} = {})
    /\ [][/\ (call'.op = "free" /\ call'.pgid <= 1) =>
                (status' = "panic" /\ pending' = pending /\ cache' = cache)
          /\ (call'.op = "allocate" /\ \E i \in DOMAIN ids : ids[i] <= 1) =>
                (status' = "panic" /\ call'.ret = 0)]_vars
\* free of page 1 panicked on a freelist that started empty and has a pending list.
C9_Witness ==
    /\ call.op = "free" /\ call.pgid = 1 /\ status = "panic"
    /\ ~loaded /\ pending # <<>>

\* C10: for ascending a and b with no common pgid, either possibly empty, and a
\* dst of capacity >= len(a)+len(b), merge_pgids does not panic and leaves dst
\* the ascending union of a and b.
C10_MergeIsUnion ==
    (IsAscending(m_a) /\ IsAscending(m_b) /\ SeqSet(m_a) \cap SeqSet(m_b) = {}
        /\ m_cap >= Len(m_a) + Len(m_b)) =>
        /\ m_pc # "panic"
        /\ m_pc = "done" => m_dst = SetToSeq(SeqSet(m_a) \cup SeqSet(m_b))

\* C11: a freelist written to a page with write and read from that page by a
\* new freelist gives the new freelist ids equal to the written ids and all the
\* written pending pgids merged in ascending order (their ascending union), and
\* no pending list, on both layouts of the page (count below the largest header
\* count, and not).
C11_WriteReadRoundTrip ==
    (call.op = "read_fresh" /\ wrote.done) =>
        /\ f2.ids = SortPgids(wrote.ids \o PendingConcat(wrote.pending, DOMAIN wrote.pending))
        /\ IsAscending(wrote.ids) /\ SeqSet(wrote.ids) \cap PendingSet(wrote.pending) = {} =>
              f2.ids = SetToSeq(SeqSet(wrote.ids) \cup PendingSet(wrote.pending))
        /\ f2.pending = <<>>
\* The page in the layout with the count in the first slot, written from ids and
\* two pending lists, was read.
C11_Witness ==
    /\ call.op = "read_fresh" /\ wrote.done
    /\ flpage.count = CountMax
    /\ IsAscending(wrote.ids) /\ wrote.ids # <<>>
    /\ DOMAIN wrote.pending = {1, 2}
    /\ Len(f2.ids) = Len(wrote.ids) + 2

\* C12: after reload(page), ids is the ascending list of the page's pgids that
\* are in no pending list, pending is unchanged and cache is the set of the
\* pgids in ids and in the pending lists.
C12_ReloadIsPageMinusPending ==
    [][call'.op = "reload" =>
        /\ ids' = SelectSeq(SetToSeq(SeqSet(PageSlice(flpage))),
                            LAMBDA id : id \notin PendingSet(pending))
        /\ pending' = pending
        /\ cache' = SeqSet(ids') \cup PendingSet(pending')]_vars

\* The keys of the inodes, and the places of a key in them.
InodeKeys(inodes) == {inodes[i].key : i \in DOMAIN inodes}
PlacesOf(inodes, key) == {i \in DOMAIN inodes : inodes[i].key = key}
KeysBelow(inodes, key) == {i \in DOMAIN inodes : KeyLess(inodes[i].key, key)}

\* C13: from an empty node, after any puts with old_key = new_key (not empty)
\* and any dels, the inodes are in strictly increasing key order, there is
\* exactly one inode for each key put and not deleted since, and it has the
\* value and the flags of the last put of that key.
C13_PutDelKeepSortedMap ==
    nhist.plain =>
        /\ KeysAscending(node.inodes)
        /\ InodeKeys(node.inodes) = DOMAIN nhist.latest
        /\ Len(node.inodes) = Cardinality(DOMAIN nhist.latest)
        /\ \A i \in DOMAIN node.inodes :
              /\ node.inodes[i].value = nhist.latest[node.inodes[i].key].value
              /\ node.inodes[i].flags = nhist.latest[node.inodes[i].key].flags
\* Three keys are held, one of them put with flags 0x02, and a del has removed
\* an inode.
C13_Witness ==
    /\ nhist.plain /\ Len(node.inodes) = 3 /\ node.unbalanced
    /\ \E i \in DOMAIN node.inodes : node.inodes[i].flags = 2
    /\ ncall.op = "put" /\ nstatus = "ok"

\* C14: a put that returns changes exactly one inode: the inode with key
\* old_key is overwritten in place when there is one (the count unchanged),
\* otherwise one inode is inserted at old_key's sorted place (the count one
\* more); that inode has key new_key and the given value, pgid and flags, and
\* the other inodes are unchanged.
C14_PutChangesOneInode ==
    [][\A old_key \in PutKeys, new_key \in PutKeys, a \in PutArgs :
        (Put(old_key, new_key, a.value, a.pgid, a.flags) /\ nstatus' = "ok") =>
            LET e == [flags |-> a.flags, pgid |-> a.pgid, key |-> new_key, value |-> a.value]
                at == PlacesOf(node.inodes, old_key)
            IN  IF at # {}
                THEN /\ Len(node'.inodes) = Len(node.inodes)
                     /\ \E i \in at : node'.inodes = [node.inodes EXCEPT ![i] = e]
                ELSE /\ Len(node'.inodes) = Len(node.inodes) + 1
                     /\ node'.inodes = InsertAt(node.inodes,
                                                Cardinality(KeysBelow(node.inodes, old_key)) + 1, e)]_vars
\* A put has given an inode a new key (old_key # new_key) in a node of three
\* inodes.
C14_Witness ==
    /\ ncall.op = "put" /\ nstatus = "ok" /\ ~nhist.plain
    /\ Len(node.inodes) = 3

\* C15: del(key) removes the inode with that key and sets unbalanced when the
\* key is present; when it is absent the inodes and unbalanced stay as they
\* were.
C15_DelRemovesOrNothing ==
    [][\A key \in PutKeys \cup {<<>>} :
        Del(key) =>
            LET at == PlacesOf(node.inodes, key)
            IN  IF at # {}
                THEN /\ \E i \in at : node'.inodes = RemoveAt(node.inodes, i)
                     /\ key \notin InodeKeys(node'.inodes)
                     /\ node'.unbalanced
                ELSE node' = node]_vars
\* A del has removed one of three inodes; then a del of an absent key left the
\* node as it was.
C15_Witness ==
    /\ ncall.op = "del" /\ node.unbalanced /\ Len(node.inodes) = 2

\* The inodes of n and m agree in what a page keeps of them: the keys; for a
\* leaf the values and the flags; for a branch the pgids.
SameInodes(n, m) ==
    /\ Len(m.inodes) = Len(n.inodes)
    /\ \A i \in DOMAIN n.inodes :
          /\ m.inodes[i].key = n.inodes[i].key
          /\ n.is_leaf => /\ m.inodes[i].value = n.inodes[i].value
                          /\ m.inodes[i].flags = n.inodes[i].flags
          /\ ~n.is_leaf => m.inodes[i].pgid = n.inodes[i].pgid

\* The node has been written to the page and a new node has read the page.
WrittenAndRead == ncall.op = "read" /\ npage # ZeroNodePage

\* The nodes whose write and read give the node back: a leaf whose inodes all
\* have a value, a branch none of whose inodes has the page's id as pgid.
RoundTrips(n, pg) ==
    \A i \in DOMAIN n.inodes :
        /\ n.is_leaf => n.inodes[i].value.some
        /\ ~n.is_leaf => n.inodes[i].pgid # pg.id

\* C16 as stated: every node, leaf or branch, of fewer than 0xFFFF inodes with
\* no empty key is written to a zeroed page without panic, and a new node that
\* reads the page has the same is_leaf and the same inodes in the same order
\* (keys; values and flags for a leaf; pgids for a branch) and the first
\* inode's key as its key.
C16_RoundTripEveryNode ==
    /\ ncall.op = "write" => nstatus = "ok"
    /\ WrittenAndRead =>
          /\ nstatus = "ok"
          /\ node2.is_leaf = node.is_leaf
          /\ SameInodes(node, node2)
          /\ node.inodes # <<>> => node2.key = node.inodes[1].key

\* C16, amended: the round trip holds for a leaf whose inodes all have a value
\* and for a branch none of whose inodes has the page's id (0 on a zeroed
\* page) as pgid. write panics exactly when a branch inode has the page's id as
\* pgid; a leaf inode without a value is read back with the empty value, all
\* else of the node as written.
C16_WriteReadRoundTrip ==
    /\ ncall.op = "write" =>
          (nstatus = "panic" <=>
              (~node.is_leaf /\ \E i \in DOMAIN node.inodes : node.inodes[i].pgid = npage.id))
    /\ WrittenAndRead =>
          /\ nstatus = "ok"
          /\ node2.is_leaf = node.is_leaf
          /\ node2.pgid = npage.id
          /\ node2.key = (IF node.inodes = <<>> THEN <<>> ELSE node.inodes[1].key)
          /\ RoundTrips(node, npage) => SameInodes(node, node2)
          /\ Len(node2.inodes) = Len(node.inodes)
          /\ \A i \in DOMAIN node.inodes :
                /\ node2.inodes[i].key = node.inodes[i].key
                /\ node.is_leaf =>
                      /\ node2.inodes[i].value = Some(ValueBytes(node.inodes[i].value))
                      /\ node2.inodes[i].flags = node.inodes[i].flags
                /\ ~node.is_leaf => node2.inodes[i].pgid = node.inodes[i].pgid

\* A branch of three inodes, with keys of different lengths, has been written
\* and read back.
C16_Witness ==
    /\ WrittenAndRead
    /\ ~node.is_leaf
    /\ Len(node.inodes) = 3
    /\ RoundTrips(node, npage)
    /\ SameInodes(node, node2)

\* C17: split(page_size) of a node that has fewer than 2 * MIN_KEYS_PER_PAGE
\* = 4 inodes, or whose size() is less than page_size, changes nothing: the
\* node is as it was, split returns no sibling, no parent is made, new_parents,
\* the parent's children and stats.split are as they were.
C17_SplitLeavesSmallNode ==
    [][\A page_size \in PageSizes :
          (/\ Split(page_size)
           /\ Len(node.inodes) < 2 * MIN_KEYS_PER_PAGE \/ size(node) < page_size) =>
              /\ node' = node
              /\ siblings' = <<>>
              /\ new_parents' = new_parents
              /\ children' = children
              /\ stats_split' = stats_split]_vars

\* split has been called with a page the node is too big for, on a node of
\* three inodes, and on a node of four or more inodes with a page it fits.
C17_Witness ==
    /\ ncall.op = "split"
    /\ siblings = <<>>
    /\ stats_split = 0
    /\ \/ Len(node.inodes) = 3 /\ size(node) > ncall.page_size
       \/ Len(node.inodes) >= 4 /\ size(node) < ncall.page_size

\* The inodes of the nodes of a list, one after the other.
RECURSIVE AllInodes(_)
AllInodes(nodes) ==
    IF nodes = <<>> THEN <<>> ELSE Head(nodes).inodes \o AllInodes(Tail(nodes))

\* The indexes i >= MIN_KEYS_PER_PAGE (0-based), with MIN_KEYS_PER_PAGE inodes
\* left behind them, at which the page header and inodes[0..i] together
\* exceed the threshold.
OverThreshold(n, threshold) ==
    {i \in MIN_KEYS_PER_PAGE..(Len(n.inodes) - MIN_KEYS_PER_PAGE) :
        SizeUpTo(n, i + 1) > threshold}

\* C18: when split_two splits a node, of any length >= 4 and any sizes of its
\* inodes, the node keeps inodes[0..i) and the new nodes get inodes[i..], where
\* i is the first index >= MIN_KEYS_PER_PAGE at which the header and
\* inodes[0..i] exceed threshold = fill_percent * page_size (five inodes of 40
\* bytes and a page of 100 split 2 / 3).
C18_SplitAtFirstIndexOverThreshold ==
    [][\A page_size \in PageSizes :
          LET over == OverThreshold(node, Threshold(fill_percent, page_size))
          IN  (Split(page_size) /\ ~NoSplit(node, page_size) /\ over # {}) =>
                 /\ node'.inodes = SubSeq(node.inodes, 1, Min(over))
                 /\ AllInodes(siblings') =
                       SubSeq(node.inodes, Min(over) + 1, Len(node.inodes))]_vars

\* The nodes of a list are in key order: the keys of each node increase, and
\* the last key of each node is less than the first key of the next node.
NodesInKeyOrder(nodes) ==
    /\ \A i \in DOMAIN nodes : KeysAscending(nodes[i].inodes)
    /\ \A i \in 1..(Len(nodes) - 1) :
          /\ nodes[i].inodes # <<>>
          /\ nodes[i + 1].inodes # <<>>
          /\ KeyLess(nodes[i].inodes[Len(nodes[i].inodes)].key, nodes[i + 1].inodes[1].key)

\* C19: after split of a node whose keys strictly increase, the node and the
\* nodes split returns, left to right, have max_key(ni) < min_key(ni+1) for
\* every i, and their inodes, one node after the other, are the inodes the
\* node had before the split: none lost, doubled or moved.
C19_SplitKeepsOrderAndInodes ==
    [][\A page_size \in PageSizes :
          (Split(page_size) /\ KeysAscending(node.inodes)) =>
              /\ NodesInKeyOrder(<<node'>> \o siblings')
              /\ AllInodes(<<node'>> \o siblings') = node.inodes]_vars

\* split has returned two nodes or more, each with inodes.
C19_Witness ==
    /\ ncall.op = "split"
    /\ Len(siblings) >= 2
    /\ node.inodes # <<>>
    /\ \A i \in DOMAIN siblings : siblings[i].inodes # <<>>

\* No inode of the node is bigger than the threshold.
NoInodeOverThreshold(n, threshold) ==
    \A i \in DOMAIN n.inodes : ElemSize(n, i) <= threshold

\* C20 as stated: when split has split a node into n1..nk (the node and the
\* nodes split returns), each ni has size() <= page_size, unless one inode
\* alone is bigger than the threshold.
C20_SplitNodesFitPage ==
    [][\A page_size \in PageSizes :
          (/\ Split(page_size)
           /\ siblings' # <<>>
           /\ NoInodeOverThreshold(node, Threshold(fill_percent, page_size))) =>
              \A i \in 1..(Len(siblings') + 1) :
                  size((<<node'>> \o siblings')[i]) <= page_size]_vars

\* C20, amended: after split(page_size), the node and each node split returns
\* has size() <= page_size or has fewer than 2 * MIN_KEYS_PER_PAGE = 4 inodes,
\* whatever the sizes of the inodes.
C20_SplitNodesFitPageOrAreShort ==
    [][\A page_size \in PageSizes :
          Split(page_size) =>
              \A i \in 1..(Len(siblings') + 1) :
                  LET ni == (<<node'>> \o siblings')[i]
                  IN  size(ni) <= page_size \/ Len(ni.inodes) < 2 * MIN_KEYS_PER_PAGE]_vars

\* split has split a node none of whose inodes is bigger than the threshold;
\* the node keeps four inodes or more, and the last node split returns is
\* bigger than the page.
C20_Witness ==
    /\ ncall.op = "split"
    /\ Len(siblings) >= 1
    /\ Len(node.inodes) >= 2 * MIN_KEYS_PER_PAGE
    /\ size(node) <= ncall.page_size
    /\ size(siblings[Len(siblings)]) > ncall.page_size
    /\ \A i \in DOMAIN siblings :
          NoInodeOverThreshold(siblings[i], Threshold(fill_percent, ncall.page_size))
    /\ NoInodeOverThreshold(node, Threshold(fill_percent, ncall.page_size))

\* The names, in the child lists, of the nodes a split returns: each split_two
\* counts the node it makes in stats.split.
MadeBy(before, after) == [j \in 1..(after - before) |-> before + j]

\* C21: when split splits a node that has no parent, one parent is made for
\* the whole split, however many nodes split returns; it is pushed once to
\* new_parents; its children are the node and then the returned nodes, left to
\* right; the node and the returned nodes all have it as parent. When the node
\* has a parent, no parent is pushed to new_parents, the returned nodes are
\* appended to the children of that parent and have it as parent.
C21_SplitParent ==
    [][\A page_size \in PageSizes :
          (Split(page_size) /\ siblings' # <<>>) =>
              LET made == MadeBy(stats_split, stats_split')
              IN  /\ Len(made) = Len(siblings')
                  /\ node.parent = "none" =>
                        /\ new_parents' = Append(new_parents, <<0>> \o made)
                        /\ children' = children
                        /\ node'.parent = "new"
                        /\ \A i \in DOMAIN siblings' : siblings'[i].parent = "new"
                  /\ node.parent = "old" =>
                        /\ new_parents' = new_parents
                        /\ children' = children \o made
                        /\ node'.parent = "old"
                        /\ \A i \in DOMAIN siblings' : siblings'[i].parent = "old"
                  /\ node.parent = "new" =>
                        /\ Len(new_parents') = Len(new_parents)
                        /\ new_parents'[Len(new_parents)] =
                              new_parents[Len(new_parents)] \o made
                        /\ children' = children
                        /\ node'.parent = "new"
                        /\ \A i \in DOMAIN siblings' : siblings'[i].parent = "new"]_vars

\* A node without parent has been split into three: the one new parent has
\* the three as children.
C21_Witness ==
    /\ ncall.op = "split"
    /\ Len(siblings) = 2
    /\ new_parents = <<(<<0, 1, 2>>)>>
    /\ node.parent = "new"

\* spill has nodes to write: the node is not spilled and split splits it.
SpillWrites(n, page_size) == ~n.spilled /\ ~NoSplit(n, page_size)

\* C22: after spill returns Ok on a node that was not spilled, the node and
\* every node its split made have spilled = true and a pgid that is not 0,
\* no two of them the same pgid. (The claim goes on: the old pgids were freed,
\* the inodes written, the parent has an entry for each node.)
C22_SpillMarksAndPlacesNodes ==
    [][\A page_size \in PageSizes :
          (Spill(page_size) /\ ~node.spilled /\ nstatus' = "ok") =>
              LET all == <<node'>> \o siblings'
              IN  /\ \A i \in DOMAIN all : all[i].spilled /\ all[i].pgid # 0
                  /\ \A i, j \in DOMAIN all : i # j => all[i].pgid # all[j].pgid]_vars

\* C23: when spill has nodes to write and the allocation of their pages fails
\* (no node gets a page), spill returns the error and the nodes are as they
\* were before spill: the node has its pgid, its inodes and spilled = false,
\* no node was made, so that spill can be called again.
C23_SpillFailureLeavesTree ==
    [][\A page_size \in PageSizes :
          (/\ Spill(page_size)
           /\ SpillWrites(node, page_size)
           /\ \A i \in DOMAIN siblings' : ~siblings'[i].spilled) =>
              /\ nstatus' = "err"
              /\ node' = node
              /\ siblings' = <<>>
              /\ stats_split' = stats_split]_vars

\* ceil(a / b).
Ceil(a, b) == (a + b - 1) \div b

\* C24: for each node spill writes (each node of the list split returns),
\* spill asks tx.allocate for ceil(size() / page_size) pages, size() being that
\* of the node that is written.
C24_SpillRequestsCeilPages ==
    [][\A page_size \in PageSizes :
          (Spill(page_size) /\ SpillWrites(node, page_size)) =>
              ncall'.requested =
                  [i \in DOMAIN siblings' |-> Ceil(size(siblings'[i]), page_size)]]_vars

\* C25: Tx::free(pgid), when it returns, has appended the page and its
\* overflow pages to the pending list of the transaction's meta.txid.
C25_TxFreeKeyedByTxid ==
    [][\A pgid \in PgIds, overflow \in 0..MaxOverflow :
          (TxFree(pgid, overflow) /\ status' = "ok") =>
              /\ meta_txid \in DOMAIN pending'
              /\ pending'[meta_txid] =
                    (IF meta_txid \in DOMAIN pending THEN pending[meta_txid] ELSE <<>>)
                        \o [i \in 1..(overflow + 1) |-> pgid + i - 1]]_vars

C27_BucketNodeReadsPage ==
    [][\A pgid \in 0..MaxNodePgid, parent \in 0..Len(bnodes) :
          (BucketNode(pgid, parent) /\ pgid \notin DOMAIN bucket.nodes) =>
              LET pg == IF bucket.page.some THEN DiskPage(bucket.page.id) ELSE DiskPage(pgid)
                  n == bnodes'[bcall'.ret].node
              IN  /\ n.pgid = pg.id
                  /\ n.is_leaf = HasFlag(pg.flags, LEAF_PAGE_FLAG)
                  /\ n.inodes = ReadNodePage(NewNode, pg).inodes]_vars

\* C28: the bucket Bucket::new makes has fill_percent = DEFAULT_FILL_PERCENT
\* (0.5), so that the threshold of the split of its nodes is 0.5 * page_size.
C28_NewBucketFillsHalf ==
    /\ fill_percent = DEFAULT_FILL_PERCENT
    /\ \A page_size \in PageSizes :
          Threshold(fill_percent, page_size) = (DEFAULT_FILL_PERCENT * page_size) \div 10

\* C29: put panics when pgid is greater than tx.meta.pgid, when old_key is
\* empty or when new_key is empty, and then leaves the inodes as they were;
\* with pgid <= tx.meta.pgid and keys that are not empty it does not panic.
C29_PutPanicsOnBadArguments ==
    [][\A old_key, new_key \in PutKeys \cup {<<>>}, a \in PutArgs :
          Put(old_key, new_key, a.value, a.pgid, a.flags) =>
              /\ nstatus' = "panic" <=>
                    (a.pgid > hwm \/ old_key = <<>> \/ new_key = <<>>)
              /\ nstatus' = "panic" => node'.inodes = node.inodes]_vars

\* put has panicked on a node that holds inodes.
C29_Witness ==
    /\ ncall.op = "put"
    /\ nstatus = "panic"
    /\ Len(node.inodes) >= 2

\* The leaf of the test of put: three inodes with keys of 3 bytes and values
\* of 1 byte.
ThreeInodeLeaf ==
    [NewNode EXCEPT
        !.is_leaf = TRUE,
        !.inodes = [i \in 1..3 |-> [flags |-> 0, pgid |-> 0, key |-> <<9, 9, i>>,
                                    value |-> Some(<<i>>)]]]

\* C30: size() is the size of the page header (16) plus, for each inode, the
\* size of an element (16, leaf or branch), the length of the key and the
\* length of the value (0 when there is none), whatever the node holds; three
\* leaf inodes with keys of 3 bytes and values of 1 byte give 76.
C30_SizeIsHeaderPlusInodes ==
    /\ size(node) = 16 + 16 * Len(node.inodes)
                       + Len(NodeData(node.inodes, Len(node.inodes)))
    /\ size(ThreeInodeLeaf) = 76

\* put has built a node of three inodes: one without value, one with a value
\* of two bytes.
C30_Witness ==
    /\ ncall.op = "put"
    /\ Len(node.inodes) = 3
    /\ \E i \in DOMAIN node.inodes : ~node.inodes[i].value.some
    /\ \E i \in DOMAIN node.inodes : Len(node.inodes[i].value.bytes) = 2

\* C31: when allocate(n) returns 0 (ids empty, n = 0, or no run of n
\* consecutive ids), ids, pending and cache are as they were before the call.
C31_AllocateFailureChangesNothing ==
    [][(call'.op = "allocate" /\ status' = "ok" /\ call'.ret = 0) =>
          /\ ids' = ids
          /\ pending' = pending
          /\ cache' = cache]_vars

\* allocate(2) has returned 0 on a freelist that has ids, none next to another,
\* and a pending list.
C31_Witness ==
    /\ call.op = "allocate" /\ call.n = 2 /\ call.ret = 0 /\ status = "ok"
    /\ Len(ids) >= 2
    /\ pending # <<>>

\* C32: every node a split produces, the node itself and each sibling, holds
\* at least MIN_KEYS_PER_PAGE = 2 inodes, for every node of 4 or more inodes
\* that split_two splits.
C32_SplitNodesHaveMinKeys ==
    [][\A page_size \in PageSizes :
          (/\ Split(page_size)
           /\ Len(node.inodes) >= 4
           /\ ~NoSplit(node, page_size)) =>
              /\ Len(node'.inodes) >= MIN_KEYS_PER_PAGE
              /\ \A j \in DOMAIN siblings' :
                    Len(siblings'[j].inodes) >= MIN_KEYS_PER_PAGE]_vars

\* C33: spill of a node spills every child of its child list before it splits
\* the node, in ascending order of the children's first keys, and leaves the
\* child list empty.
C33_SpillSpillsChildrenFirst ==
    [][\A page_size \in PageSizes :
          (Spill(page_size) /\ ~node.spilled /\ kid_list # <<>>) =>
              /\ \A i \in DOMAIN kids : kids'[i].n.spilled /\ kids'[i].called > 0
              /\ \A i, j \in DOMAIN kids :
                    (/\ kids[i].n.inodes # <<>> /\ kids[j].n.inodes # <<>>
                     /\ KeyLess(KidKey(i), KidKey(j))) =>
                        kids'[i].called < kids'[j].called
              /\ kid_list' = <<>>]_vars

C35_FreeOfUnfreePageSucceeds ==
    [][(call'.op = "free" /\ call'.pgid > 1 /\ PageIds(call') \cap FreeSet = {}) =>
          status' = "ok"]_vars

\* C36: rollback(txid) for a txid that has no pending list returns without
\* panic and leaves ids, pending and cache as they were.
C36_RollbackWithoutListIsNoOp ==
    [][(call'.op = "rollback" /\ call'.txid \notin DOMAIN pending) =>
          /\ status' = "ok"
          /\ ids' = ids
          /\ pending' = pending
          /\ cache' = cache]_vars

\* C37: read(page) replaces ids: whatever ids held, afterwards it is the
\* ascending list of the pgids of the page (empty for a count of 0), so a
\* second read of the same page changes nothing, and cache is the set of the
\* pgids of ids and of the pending lists.
C37_ReadReplacesIds ==
    [][\A page \in Pages(PgIds) :
          Read(page) =>
              /\ ids' = SortPgids(page)
              /\ cache' = SeqSet(ids') \cup PendingSet(pending)]_vars

\* C38: size_less_than(v) is true exactly when size() < v, for every node, a
\* node without inodes included, and every v >= 0.
C38_SizeLessThanIsSizeBelow ==
    \A v \in 0..(size(node) + 1) : size_less_than(node, v) <=> size(node) < v

\* C39: merge_pgids terminates for every pair of ascending lists a and b that
\* are not empty, also when they share pgids (dst has the capacity release
\* gives it), and every element of a and of b is then in dst.
C39_MergeTerminates ==
    (m_pc = "start" /\ m_a # <<>> /\ m_b # <<>> /\ m_cap >= Len(m_a) + Len(m_b)) ~>
        (m_pc = "done" /\ SeqSet(m_a) \cup SeqSet(m_b) \subseteq SeqSet(m_dst))

\* C40: spill of a node whose spilled flag is set returns Ok with an empty
\* new_parents and frees, allocates and writes nothing; the node, its children
\* and its parent are as they were.
C40_SpillOfSpilledNodeIsNoOp ==
    [][\A page_size \in PageSizes :
          (Spill(page_size) /\ node.spilled) =>
              /\ nstatus' = "ok"
              /\ new_parents' = <<>>
              /\ ncall'.requested = <<>>
              /\ UNCHANGED <<node, siblings, kids, kid_list, pnode, children>>
              /\ UNCHANGED <<ids, pending, cache, npage, stats_split>>]_vars

\* spill has returned Ok on a spilled node that has a parent and is of a size
\* that split would split.
C40_Witness ==
    /\ ncall.op = "spill" /\ nstatus = "ok"
    /\ node.spilled
    /\ node.parent = "old"
    /\ Len(node.inodes) >= 5
    /\ size(node) > ncall.page_size
====
